---- MODULE Spec2Model ----
(***************************************************************************)
(* Model of analyze.py, the Integer Resonance CRISPR analyzer: sequence    *)
(* validation, the position-weight scorer, the specificity estimator, the  *)
(* efficiency classifier, analyze_single, the row loop of analyze_batch    *)
(* and the dispatch in main.                                               *)
(*                                                                         *)
(* A Python str is a sequence of one-character strings.  A value that may  *)
(* be None is None == <<>> or Some(x) == <<x>>.  A message is a sequence   *)
(* of its literal parts and its interpolated values; the empty message is  *)
(* the empty sequence.                                                     *)
(***************************************************************************)
EXTENDS Integers, Sequences, FiniteSets, TLC

VARIABLES pc, args, csv, idx, results, result, output, summary, exit_code

vars == <<pc, args, csv, idx, results, result, output, summary, exit_code>>

----------------------------------------------------------------------------
(* Python values and helpers *)

None == <<>>

Some(x) == <<x>>

Str(s) == [type |-> "str", v |-> s]

NaN == [type |-> "float", v |-> <<"nan">>]

Min2(a, b) == IF a <= b THEN a ELSE b

Max2(a, b) == IF a >= b THEN a ELSE b

Abs(x) == IF x < 0 THEN -x ELSE x

\* int(x / y) for a float quotient: truncation toward zero
TruncDiv(x, y) == IF x >= 0 THEN x \div y ELSE -((-x) \div y)

\* str.upper() on one character
UpperChar(c) ==
    CASE c = "a" -> "A"
      [] c = "c" -> "C"
      [] c = "g" -> "G"
      [] c = "t" -> "T"
      [] c = "n" -> "N"
      [] OTHER -> c

\* str.upper()
Upper(s) == [i \in 1..Len(s) |-> UpperChar(s[i])]

\* s[a:b] with 0 <= a <= b
Slice(s, a, b) == SubSeq(s, a + 1, Min2(b, Len(s)))

\* s.endswith(suffix)
EndsWith(s, suffix) ==
    /\ Len(s) >= Len(suffix)
    /\ SubSeq(s, Len(s) - Len(suffix) + 1, Len(s)) = suffix

\* base * n
Repeat(base, n) == [i \in 1..n |-> base]

RECURSIVE CountFrom(_, _, _)
\* number of non-overlapping occurrences of sub in s, scanning from index i
CountFrom(s, sub, i) ==
    IF i + Len(sub) - 1 > Len(s) THEN 0
    ELSE IF SubSeq(s, i, i + Len(sub) - 1) = sub
         THEN 1 + CountFrom(s, sub, i + Len(sub))
         ELSE CountFrom(s, sub, i + 1)

\* s.count(sub)
Count(s, sub) == CountFrom(s, sub, 1)

RECURSIVE SumTo(_, _)
\* sum of f[1] .. f[n]
SumTo(f, n) == IF n = 0 THEN 0 ELSE f[n] + SumTo(f, n - 1)

RECURSIVE MaxTo(_, _, _)
\* max(f[lo] .. f[hi], default=0)
MaxTo(f, lo, hi) ==
    IF lo > hi THEN 0
    ELSE IF lo = hi THEN f[lo]
    ELSE Max2(f[hi], MaxTo(f, lo, hi - 1))

----------------------------------------------------------------------------
(* Module constants *)

POSITION_WEIGHTS ==
    << <<120,  80,  95, 105>>,
       <<115,  85,  90, 110>>,
       <<110,  90,  85, 115>>,
       <<105,  95,  80, 120>>,
       <<125,  75,  90, 110>>,
       <<130,  70,  85, 115>>,
       <<120,  80,  95, 105>>,
       <<115,  85,  90, 110>>,
       <<110,  90, 100, 100>>,
       <<105,  95, 105,  95>>,
       <<100, 100, 105,  95>>,
       << 95, 105, 100, 100>>,
       << 90, 110,  95, 105>>,
       << 85, 115,  90, 110>>,
       << 80, 120,  95, 105>>,
       << 85, 115,  90, 110>>,
       << 90, 110,  95, 105>>,
       << 95, 105, 100, 100>>,
       <<100, 100, 100, 100>>,
       <<105,  95, 100, 100>> >>

DINUC_BONUS ==
    (<<"G","G">> :> 50) @@ (<<"C","C">> :> 45) @@ (<<"A","A">> :> 40) @@
    (<<"T","T">> :> 38) @@ (<<"G","C">> :> 42) @@ (<<"C","G">> :> 40) @@
    (<<"A","T">> :> 35) @@ (<<"T","A">> :> 32) @@ (<<"A","G">> :> 38) @@
    (<<"G","A">> :> 36) @@ (<<"C","T">> :> 34) @@ (<<"T","C">> :> 33) @@
    (<<"A","C">> :> 36) @@ (<<"C","A">> :> 35) @@ (<<"G","T">> :> 34) @@
    (<<"T","G">> :> 33)

GC_OPTIMAL_MIN == 8

GC_OPTIMAL_MAX == 12

GC_BONUS_MAX == 80

\* the literal 'ACGT' of validate_sequence and calculate_specificity
ACGT == <<"A", "C", "G", "T">>

----------------------------------------------------------------------------
(* The scoring engine *)

\* encode_nucleotide: index of the base in the weight table, -1 if unknown
encode_nucleotide(base) ==
    CASE UpperChar(base) = "A" -> 0
      [] UpperChar(base) = "C" -> 1
      [] UpperChar(base) = "G" -> 2
      [] UpperChar(base) = "T" -> 3
      [] OTHER -> -1

LengthMessage(n) ==
    <<"Sequence must be ", 23, "bp (20bp guide + NGG PAM), got ", n, "bp">>

GuideMessage == <<"Guide sequence contains invalid bases (must be A, C, G, T)">>

PamMessage(pam) == <<"PAM must end with GG, got ", pam>>

\* validate_sequence with the PAM checked before the guide
validate_sequence_pam_first(seq) ==
    IF Len(seq) # 23
    THEN <<FALSE, LengthMessage(Len(seq))>>
    ELSE LET guide == Slice(seq, 0, 20)
             pam   == Slice(seq, 20, 23)
         IN  IF ~EndsWith(Upper(pam), <<"G", "G">>)
             THEN <<FALSE, PamMessage(pam)>>
             ELSE IF ~(\A i \in 1..Len(guide) :
                          \E j \in 1..Len(ACGT) : Upper(guide)[i] = ACGT[j])
             THEN <<FALSE, GuideMessage>>
             ELSE <<TRUE, <<>> >>

\* validate_sequence: <<is_valid, error_message>>
validate_sequence(seq) ==
    IF Len(seq) # 23
    THEN <<FALSE, LengthMessage(Len(seq))>>
    ELSE LET guide == Slice(seq, 0, 20)
             pam   == Slice(seq, 20, 23)
         IN  IF ~(\A i \in 1..Len(guide) :
                     \E j \in 1..Len(ACGT) : Upper(guide)[i] = ACGT[j])
             THEN <<FALSE, GuideMessage>>
             ELSE IF ~EndsWith(Upper(pam), <<"G", "G">>)
             THEN <<FALSE, PamMessage(pam)>>
             ELSE <<TRUE, <<>> >>

\* base score: sum over the guide of the position-and-base weight
base_score(guide) ==
    SumTo([pos \in 1..Len(guide) |->
              IF encode_nucleotide(guide[pos]) >= 0
              THEN POSITION_WEIGHTS[pos][encode_nucleotide(guide[pos]) + 1]
              ELSE 0],
          Len(guide))

\* DINUC_BONUS.get(dinuc, 0)
DinucGet(dinuc) == IF dinuc \in DOMAIN DINUC_BONUS THEN DINUC_BONUS[dinuc] ELSE 0

\* dinucleotide score: sum over range(19) of the bonus of guide[i:i+2]
dinuc_score(guide) ==
    SumTo([k \in 1..19 |-> DinucGet(Slice(guide, k - 1, k + 1))], 19)

\* guide.count('G') + guide.count('C')
gc_count(guide) == Count(guide, <<"G">>) + Count(guide, <<"C">>)

\* gc_bonus measuring the distance to the farther end of the optimal range
gc_bonus_far_end(guide) ==
    IF GC_OPTIMAL_MIN <= gc_count(guide) /\ gc_count(guide) <= GC_OPTIMAL_MAX
    THEN GC_BONUS_MAX
    ELSE LET distance == Max2(Abs(gc_count(guide) - GC_OPTIMAL_MIN),
                              Abs(gc_count(guide) - GC_OPTIMAL_MAX))
         IN  Max2(0, GC_BONUS_MAX - distance * 15)

gc_bonus(guide) ==
    IF GC_OPTIMAL_MIN <= gc_count(guide) /\ gc_count(guide) <= GC_OPTIMAL_MAX
    THEN GC_BONUS_MAX
    ELSE LET distance == Min2(Abs(gc_count(guide) - GC_OPTIMAL_MIN),
                              Abs(gc_count(guide) - GC_OPTIMAL_MAX))
         IN  Max2(0, GC_BONUS_MAX - distance * 15)

total_score(guide) == base_score(guide) + dinuc_score(guide) + gc_bonus(guide)

\* the clamp without its upper end
Clamp_no_upper(x) == Max2(0, x)

\* max(0, min(1000, x))
Clamp(x) == Max2(0, Min2(1000, x))

\* the normalization with the observed maximum taken for the floor
Normalize_floor_2800(total) == TruncDiv((total - 2800) * 1000, 1000)

\* int((total_score - 1800) * 1000 / 1000); a total is at most
\* 20 * 130 + 19 * 50 + 80 = 3630, so the product fits the int32 of the table
Normalize(total) == TruncDiv((total - 1800) * 1000, 1000)

calculate_integer_resonance_score(seq) ==
    Clamp(Normalize(total_score(Upper(Slice(seq, 0, 20)))))

\* the classifier with strict thresholds
predict_efficiency_strict(score) ==
    IF score > 700 THEN "High"
    ELSE IF score > 400 THEN "Medium"
    ELSE "Low"

predict_efficiency(score) ==
    IF score >= 700 THEN "High"
    ELSE IF score >= 400 THEN "Medium"
    ELSE "Low"

\* max([guide.count(base * i) for i in range(4, 10)], default=0)
max_run(guide, base) ==
    MaxTo([i \in 4..9 |-> Count(guide, Repeat(base, i))], 4, 9)

\* the homopolymer loop adding the penalty instead of subtracting it
RECURSIVE RunLoop_adds(_, _, _)
RunLoop_adds(guide, n, specificity) ==
    IF n = 0 THEN specificity
    ELSE LET before == RunLoop_adds(guide, n - 1, specificity)
         IN  IF max_run(guide, ACGT[n]) > 0
             THEN before + max_run(guide, ACGT[n]) * 50
             ELSE before

\* the homopolymer loop: for base in 'ACGT', over the first n bases
RECURSIVE RunLoop(_, _, _)
RunLoop(guide, n, specificity) ==
    IF n = 0 THEN specificity
    ELSE LET before == RunLoop(guide, n - 1, specificity)
         IN  IF max_run(guide, ACGT[n]) > 0
             THEN before - max_run(guide, ACGT[n]) * 50
             ELSE before

\* len(set(guide))
unique_bases(guide) == Cardinality({guide[i] : i \in 1..Len(guide)})

LowComplexity(guide, specificity) ==
    IF unique_bases(guide) < 4 THEN specificity - 100 ELSE specificity

GcBalance(guide, specificity) ==
    IF GC_OPTIMAL_MIN <= gc_count(guide) /\ gc_count(guide) <= GC_OPTIMAL_MAX
    THEN specificity + 100
    ELSE specificity

calculate_specificity(seq) ==
    LET guide == Upper(Slice(seq, 0, 20))
    IN  Clamp(GcBalance(guide, LowComplexity(guide, RunLoop(guide, Len(ACGT), 800))))

\* analyze_single without the early return: a refused sequence is scored too
analyze_single_scores_anyway(sequence) ==
    LET v == validate_sequence(sequence)
    IN  [sequence |-> sequence,
         int_resonance_score |-> Some(calculate_integer_resonance_score(sequence)),
         efficiency_prediction |->
             Some(predict_efficiency(calculate_integer_resonance_score(sequence))),
         specificity_score |-> Some(calculate_specificity(sequence)),
         error |-> IF v[1] THEN None ELSE Some(v[2])]

analyze_single(sequence) ==
    LET v == validate_sequence(sequence)
    IN  IF ~v[1]
        THEN [sequence |-> sequence,
              error |-> Some(v[2]),
              int_resonance_score |-> None,
              efficiency_prediction |-> None,
              specificity_score |-> None]
        ELSE [sequence |-> sequence,
              int_resonance_score |-> Some(calculate_integer_resonance_score(sequence)),
              efficiency_prediction |->
                  Some(predict_efficiency(calculate_integer_resonance_score(sequence))),
              specificity_score |-> Some(calculate_specificity(sequence)),
              error |-> None]

\* the record without the columns of the row
UpdateRow_result_only(row, res) == res

\* output_row = row.to_dict(); output_row.update(result)
UpdateRow(row, res) ==
    [k \in DOMAIN row \cup DOMAIN res |-> IF k \in DOMAIN res THEN res[k] ELSE row[k]]

\* sum(1 for r in results if r['error'] is None)
CountValid(rs) == Cardinality({i \in 1..Len(rs) : rs[i].error = None})

\* sum(1 for r in results if r['error'] is not None)
CountInvalid(rs) == Cardinality({i \in 1..Len(rs) : rs[i].error # None})

\* truthiness of an optional str: neither None nor empty
Truthy(opt) == opt # None /\ opt[1] # <<>>

----------------------------------------------------------------------------
(* Inputs *)

\* number of 5-base blocks a guide is assembled from
NumBlocks == 4

\* how far the length of an input may be from 23
MaxLenDelta == 1

\* largest number of rows of an input table
MaxRows == 2

Blocks ==
    << <<"A","A","A","A","A">>,
       <<"A","C","G","T","C">>,
       <<"g","t","a","c","g">>,
       <<"A","C","N","G","T">>,
       <<"C","C","C","C","C">>,
       <<"T","T","T","T","T">>,
       <<"G","T","A","C","G">> >>

BlockSet == {Blocks[i] : i \in 1..Min2(NumBlocks, Len(Blocks))}

SpecialGuides ==
    { Repeat("C", 20), Repeat("G", 20), Repeat("T", 20),
      <<"C","G","C","G","C","C","C","G","C","T","C","G","A","G","A","G","A","G","T","C">>,
      <<"A","A","T","T","A","A","A","A","G","G","G","C","C","C","C","C","C","C","G","G">>,
      <<"A","A","A","A","C","G","T","C","G","T","A","C","G","T","C","G","T","A","C","G">>,
      <<"T","C","A","A","A","A","G","T","T","T","T","C","A","G","T","C","A","G","T","C">> }

Guides ==
    {b1 \o b2 \o b3 \o b4 : b1 \in BlockSet, b2 \in BlockSet,
                            b3 \in BlockSet, b4 \in BlockSet}
    \cup SpecialGuides

Pams ==
    { <<"A","G","G">>, <<"c","G","g">>, <<"N","G","G">>,
      <<"G","G","A">>, <<"T","G","C">> }

\* the string cut or padded to Len(s) + d characters
Resize(s, d) == IF d <= 0 THEN SubSeq(s, 1, Len(s) + d) ELSE s \o Repeat("G", d)

\* the guides whose inputs also come cut and padded
ResizedGuides == {b \o b \o b \o b : b \in BlockSet} \cup SpecialGuides

Inputs ==
    {g \o p : g \in Guides, p \in Pams}
    \cup {Resize(g \o p, d) : g \in ResizedGuides, p \in Pams,
                               d \in (-MaxLenDelta)..MaxLenDelta}

ValidSeq == Blocks[2] \o Blocks[3] \o Blocks[2] \o Blocks[3] \o <<"A","G","G">>

\* the rows of the input tables: a sequence cell and a measured efficiency
Rows ==
    { [sequence |-> Str(ValidSeq), label |-> "0.91"],
      [sequence |-> Str(Repeat("A", 20) \o <<"t","g","g">>), label |-> "0.12"],
      [sequence |-> Str(SubSeq(ValidSeq, 1, 22)), label |-> "0.55"],
      [sequence |-> Str(Blocks[4] \o Blocks[2] \o Blocks[2] \o Blocks[2] \o <<"A","G","G">>),
       label |-> "0.30"],
      [sequence |-> Str(Blocks[2] \o Blocks[2] \o Blocks[2] \o Blocks[2] \o <<"G","G","A">>),
       label |-> "0.47"],
      [sequence |-> NaN, label |-> "0.78"] }

\* the rows of a table that names its sequence column otherwise
RowsNoSequence == {[guide |-> r.sequence, label |-> r.label] : r \in Rows}

Tables(R) == UNION {[1..n -> R] : n \in 0..MaxRows}

NoCsv == [exists |-> FALSE, rows |-> <<>>]

Csvs ==
    {NoCsv}
    \cup {[exists |-> TRUE, rows |-> t] : t \in Tables(Rows)}
    \cup {[exists |-> TRUE, rows |-> t] : t \in [1..1 -> RowsNoSequence]}

\* 'sequence' in df.columns (a table without rows has the header only)
HasSequenceColumn(df) == \A i \in 1..Len(df.rows) : "sequence" \in DOMAIN df.rows[i]

----------------------------------------------------------------------------
(* The program *)

Init ==
    /\ pc = "main"
    /\ \/ /\ args \in [sequence : {Some(s) : s \in Inputs},
                       input : {FALSE}, output : {FALSE}]
          /\ csv = NoCsv
       \/ /\ args \in [sequence : {None, Some(<<>>), Some(ValidSeq)},
                       input : BOOLEAN, output : BOOLEAN]
          /\ IF ~Truthy(args.sequence) /\ args.input /\ args.output
             THEN csv \in Csvs
             ELSE csv = NoCsv
    /\ idx = 0
    /\ results = <<>>
    /\ result = None
    /\ output = None
    /\ summary = None
    /\ exit_code = None

\* parser.error(...): argparse prints usage and exits with status 2
ParserError ==
    /\ pc = "main"
    /\ \/ Truthy(args.sequence) /\ (args.input \/ args.output)
       \/ ~Truthy(args.sequence) /\ ~(args.input /\ args.output)
    /\ pc' = "exit"
    /\ exit_code' = Some(2)
    /\ UNCHANGED <<args, csv, idx, results, result, output, summary>>

\* main, single sequence analysis
SingleSequence ==
    /\ pc = "main"
    /\ Truthy(args.sequence)
    /\ ~(args.input \/ args.output)
    /\ result' = Some(analyze_single(args.sequence[1]))
    /\ exit_code' = IF Truthy(analyze_single(args.sequence[1]).error)
                    THEN Some(1) ELSE Some(0)
    /\ pc' = "exit"
    /\ UNCHANGED <<args, csv, idx, results, output, summary>>

\* analyze_batch up to the loop: read the table, check the column
BatchStart ==
    /\ pc = "main"
    /\ ~Truthy(args.sequence)
    /\ args.input /\ args.output
    /\ IF ~csv.exists \/ ~HasSequenceColumn(csv)
       THEN pc' = "exit" /\ exit_code' = Some(1)
       ELSE pc' = "loop" /\ exit_code' = exit_code
    /\ results' = <<>>
    /\ idx' = 0
    /\ UNCHANGED <<args, csv, result, output, summary>>

\* one iteration of the loop of analyze_batch
BatchRow ==
    /\ pc = "loop"
    /\ idx < Len(csv.rows)
    /\ csv.rows[idx + 1].sequence.type = "str"
    /\ results' = Append(results,
                         UpdateRow(csv.rows[idx + 1],
                                   analyze_single(csv.rows[idx + 1].sequence.v)))
    /\ idx' = idx + 1
    /\ UNCHANGED <<pc, args, csv, result, output, summary, exit_code>>

\* len() of a cell that is no str raises TypeError; main reports it and exits
BatchRaise ==
    /\ pc = "loop"
    /\ idx < Len(csv.rows)
    /\ csv.rows[idx + 1].sequence.type # "str"
    /\ pc' = "exit"
    /\ exit_code' = Some(1)
    /\ UNCHANGED <<args, csv, idx, results, result, output, summary>>

\* analyze_batch after the loop: write the table, print the counts
BatchFinish ==
    /\ pc = "loop"
    /\ idx = Len(csv.rows)
    /\ output' = Some(results)
    /\ summary' = Some([total |-> Len(results),
                        valid |-> CountValid(results),
                        invalid |-> CountInvalid(results)])
    /\ pc' = "exit"
    /\ UNCHANGED <<args, csv, idx, results, result, exit_code>>

Next ==
    \/ ParserError
    \/ SingleSequence
    \/ BatchStart
    \/ BatchRow
    \/ BatchRaise
    \/ BatchFinish

Spec == Init /\ [][Next]_vars

----------------------------------------------------------------------------
(* Vocabulary of the properties, stated on the characters of the input *)

BaseSet == {"A", "C", "G", "T"}

\* the first 20 characters are bases, in either case
GuideIsBases(s) == \A i \in 1..20 : UpperChar(s[i]) \in BaseSet

\* the last two characters are G, in either case
PamEndsGG(s) == UpperChar(s[22]) = "G" /\ UpperChar(s[23]) = "G"

Passes(s) == Len(s) = 23 /\ GuideIsBases(s) /\ PamEndsGG(s)

\* the single-sequence run has ended with a record
SingleDone == pc = "exit" /\ result # None

\* the single-sequence run has ended with the record of a sequence that passes
SinglePassed == SingleDone /\ Passes(args.sequence[1])

\* the guide of a sequence that passes, in upper case
GuideOf(s) == [i \in 1..20 |-> UpperChar(s[i])]

\* the records at hand: the one of the single run and those of the batch
Records == {result[i] : i \in 1..Len(result)} \cup {results[i] : i \in 1..Len(results)}

\* C1: validate_sequence checks length, then guide alphabet, then PAM, and
\* reports the first failing check only: a length other than 23 gives the
\* message naming 23 and the actual length, whatever the characters; a
\* length-23 string with a non-base among its first 20 characters gives the
\* invalid-guide-bases message, whatever the PAM; a length-23 string with a
\* valid guide whose PAM does not end in GG gives the message carrying that
\* PAM; it succeeds, with the empty reason, exactly when no check fails.
C1_FirstFailingCheck ==
    SingleDone =>
        LET s == args.sequence[1]
            v == validate_sequence(s)
        IN  /\ Len(s) # 23 =>
                /\ v[1] = FALSE
                /\ Len(v[2]) = 5 /\ v[2][2] = 23 /\ v[2][4] = Len(s)
            /\ (Len(s) = 23 /\ ~GuideIsBases(s)) =>
                v = <<FALSE, GuideMessage>>
            /\ (Len(s) = 23 /\ GuideIsBases(s) /\ ~PamEndsGG(s)) =>
                /\ v[1] = FALSE
                /\ Len(v[2]) = 2 /\ v[2][2] = SubSeq(s, 21, 23)
            /\ v[1] = TRUE <=> Passes(s)
            /\ v[1] = TRUE => v[2] = <<>>
            /\ result[1].error = IF Passes(s) THEN None ELSE Some(v[2])

\* a length-23 input with a bad guide and a bad PAM is refused for its guide
C1_Witness ==
    /\ SingleDone
    /\ Len(args.sequence[1]) = 23
    /\ ~GuideIsBases(args.sequence[1])
    /\ ~PamEndsGG(args.sequence[1])
    /\ result[1].error = Some(GuideMessage)

\* C2: every sequence validate_sequence accepts has a PAM matching N-G-G with
\* N one of A, C, G, T, so it is a length-23 string over {A,C,G,T}.
C2_AcceptedPamIsNGG ==
    \A r \in Records :
        r.error = None =>
            /\ Len(r.sequence) = 23
            /\ \A i \in 1..23 : UpperChar(r.sequence[i]) \in BaseSet

\* C3: in the record of analyze_single error and scores exclude each other:
\* on a validation failure error is the validator's non-empty reason and the
\* score, tier and specificity are None; on success error is None and the
\* three are set. The sequence field is the input.
C3_ErrorExcludesScores ==
    /\ SingleDone => result[1].sequence = args.sequence[1]
    /\ \A r \in Records :
          /\ {"sequence", "error", "int_resonance_score",
              "efficiency_prediction", "specificity_score"} \subseteq DOMAIN r
          /\ IF Passes(r.sequence)
             THEN /\ r.error = None
                  /\ r.int_resonance_score # None
                  /\ r.efficiency_prediction # None
                  /\ r.specificity_score # None
             ELSE /\ r.error = Some(validate_sequence(r.sequence)[2])
                  /\ r.error[1] # <<>>
                  /\ r.int_resonance_score = None
                  /\ r.efficiency_prediction = None
                  /\ r.specificity_score = None

\* a refused input has ended with its reason and no scores
C3_Witness ==
    /\ SingleDone
    /\ ~Passes(args.sequence[1])
    /\ result[1].error # None
    /\ result[1].int_resonance_score = None

\* base b occurs i times in a row somewhere in guide g
HasRun(g, b, i) ==
    \E k \in 1..(Len(g) - i + 1) : \A j \in k..(k + i - 1) : g[j] = b

\* the longest run of b in g among the run lengths 4 through 9, 0 if none
LongestRun(g, b) ==
    IF \E i \in 4..9 : HasRun(g, b, i)
    THEN CHOOSE i \in 4..9 : HasRun(g, b, i) /\ \A j \in (i + 1)..9 : ~HasRun(g, b, j)
    ELSE 0

\* number of G and C among the bases of g
GcOf(g) == Cardinality({i \in 1..Len(g) : g[i] \in {"G", "C"}})

\* the specificity the run-length reading gives guide g
RunLengthSpecificity(g) ==
    LET runs == [k \in 1..4 |-> 50 * LongestRun(g, ACGT[k])]
        low  == IF Cardinality({g[i] : i \in 1..Len(g)}) < 4 THEN 100 ELSE 0
        gc   == IF 8 <= GcOf(g) /\ GcOf(g) <= 12 THEN 100 ELSE 0
    IN  Max2(0, Min2(1000, 800 - SumTo(runs, 4) - low + gc))

\* C4: for each base, calculate_specificity takes the length L of the longest
\* run of that base among the run lengths 4 through 9 and subtracts 50 * L
\* from the baseline 800, the penalties of the bases adding up; one run of
\* exactly 4 A's costs 200.
C4_PenaltyIsRunLength ==
    SinglePassed =>
        result[1].specificity_score = Some(RunLengthSpecificity(GuideOf(args.sequence[1])))

\* how far below 0 and above 1000 the classifier is probed
ProbeMargin == 5

ScoreProbe == (-ProbeMargin)..(1000 + ProbeMargin)

\* C5: the tier of a record is fixed by its score: High exactly from 700,
\* Medium exactly from 400 below 700, Low exactly below 400; and
\* predict_efficiency gives one of the three tiers for every integer.
C5_TierFromScore ==
    /\ \A r \in Records :
          r.error = None =>
              LET score == r.int_resonance_score[1]
                  tier  == r.efficiency_prediction[1]
              IN  /\ tier = "High" <=> score >= 700
                  /\ tier = "Medium" <=> (400 <= score /\ score < 700)
                  /\ tier = "Low" <=> score < 400
    /\ \A n \in ScoreProbe :
          LET tier == predict_efficiency(n)
          IN  /\ tier \in {"Low", "Medium", "High"}
              /\ tier = "High" <=> n >= 700
              /\ tier = "Medium" <=> (400 <= n /\ n < 700)
              /\ tier = "Low" <=> n < 400

\* a sequence that passes has its tier set from its score
C5_Witness ==
    /\ SinglePassed
    /\ result[1].int_resonance_score[1] >= 700
    /\ result[1].efficiency_prediction = Some("High")

\* C6: for a sequence that passes, the resonance score and the specificity
\* score are integers in [0, 1000], and each is a function of the sequence:
\* records of the same sequence carry the same scores.
C6_ScoresInRange ==
    /\ \A r \in Records :
          r.error = None =>
              /\ r.int_resonance_score[1] \in 0..1000
              /\ r.specificity_score[1] \in 0..1000
              /\ r.int_resonance_score[1] = calculate_integer_resonance_score(r.sequence)
              /\ r.specificity_score[1] = calculate_specificity(r.sequence)
    /\ \A r1 \in Records, r2 \in Records :
          (r1.error = None /\ r2.error = None /\ r1.sequence = r2.sequence) =>
              /\ r1.int_resonance_score = r2.int_resonance_score
              /\ r1.specificity_score = r2.specificity_score

\* a guide whose total exceeds the range has its score cut to 1000
C6_Witness ==
    /\ SinglePassed
    /\ total_score(GuideOf(args.sequence[1])) - 1800 > 1000
    /\ result[1].int_resonance_score = Some(1000)

\* all four bases, no run of 4 or more equal bases, GC count from 8 to 12
Balanced(g) ==
    /\ {g[i] : i \in 1..Len(g)} = BaseSet
    /\ \A b \in BaseSet : ~HasRun(g, b, 4)
    /\ 8 <= GcOf(g) /\ GcOf(g) <= 12

\* the PAMs of the inputs that end in GG
ValidPams == {p \in Pams : UpperChar(p[2]) = "G" /\ UpperChar(p[3]) = "G"}

\* C7: the specificity of 20 copies of one base followed by a valid PAM is
\* strictly lower than the specificity of every balanced guide.
C7_SingleBaseBelowBalanced ==
    (SinglePassed /\ Balanced(GuideOf(args.sequence[1]))) =>
        \A b \in BaseSet, p \in ValidPams :
            calculate_specificity(Repeat(b, 20) \o p) < result[1].specificity_score[1]

\* a balanced guide has been scored
C7_Witness ==
    /\ SinglePassed
    /\ Balanced(GuideOf(args.sequence[1]))
    /\ result[1].specificity_score # None

\* the fields analyze_single returns
ResultFields ==
    {"sequence", "error", "int_resonance_score", "efficiency_prediction",
     "specificity_score"}

\* the batch run got past the column check
InLoop == pc = "loop" \/ (pc = "exit" /\ args.input /\ args.output /\ result = None
                          /\ csv.exists /\ HasSequenceColumn(csv)
                          /\ ~Truthy(args.sequence))

\* C8: analyze_batch takes the rows in input order; after n rows it holds
\* exactly n records, the i-th carrying the columns of the i-th row and the
\* analyze_single fields of its sequence; a row that fails validation yields
\* its record, with error set, and the rows after it are processed; at the
\* end the valid and invalid counts sum to the number of rows.
C8_BatchKeepsEveryRow ==
    InLoop =>
        /\ Len(results) = idx
        /\ idx <= Len(csv.rows)
        /\ \A i \in 1..Len(results) :
              LET row == csv.rows[i]
                  rec == results[i]
              IN  /\ DOMAIN rec = DOMAIN row \cup ResultFields
                  /\ rec.label = row.label
                  /\ rec.sequence = row.sequence.v
                  /\ [f \in ResultFields |-> rec[f]] = analyze_single(row.sequence.v)
                  /\ rec.error # None <=> ~Passes(row.sequence.v)
        /\ (pc = "exit" /\ summary = None) =>
              /\ idx < Len(csv.rows)
              /\ csv.rows[idx + 1].sequence.type # "str"
        /\ (pc = "exit" /\ summary # None) =>
              /\ idx = Len(csv.rows)
              /\ output = Some(results)
              /\ summary[1].total = Len(csv.rows)
              /\ summary[1].valid + summary[1].invalid = Len(csv.rows)
              /\ summary[1].invalid =
                    Cardinality({i \in 1..Len(csv.rows) : ~Passes(csv.rows[i].sequence.v)})

\* a batch has ended whose first row failed validation and whose second passed
C8_Witness ==
    /\ pc = "exit"
    /\ summary # None
    /\ Len(csv.rows) >= 2
    /\ ~Passes(csv.rows[1].sequence.v)
    /\ Passes(csv.rows[2].sequence.v)
    /\ results[1].error # None
    /\ results[2].error = None
    /\ summary[1].valid + summary[1].invalid = Len(csv.rows)

\* column of base b in the weight table
Column(b) == CHOOSE k \in 1..4 : ACGT[k] = b

\* C9: for a sequence that passes, the score is clamp(base + dinuc + gc -
\* 1800, 0, 1000): base sums the table weight over the 20 positions, dinuc
\* the pair bonus over the 19 adjacent pairs, gc is 80 for a G/C count c from
\* 8 to 12 and otherwise max(0, 80 - 15 * d), d = min(|c - 8|, |c - 12|).
C9_ScoreFormula ==
    SinglePassed =>
        LET g     == GuideOf(args.sequence[1])
            base  == SumTo([i \in 1..20 |-> POSITION_WEIGHTS[i][Column(g[i])]], 20)
            dinuc == SumTo([i \in 1..19 |-> DINUC_BONUS[<<g[i], g[i + 1]>>]], 19)
            c     == GcOf(g)
            d     == Min2(Abs(c - 8), Abs(c - 12))
            gc    == IF 8 <= c /\ c <= 12 THEN 80 ELSE Max2(0, 80 - 15 * d)
            raw   == base + dinuc + gc - 1800
        IN  result[1].int_resonance_score =
                Some(IF raw < 0 THEN 0 ELSE IF raw > 1000 THEN 1000 ELSE raw)

\* a guide with a G/C count off the range by less than 6 is scored below 1000
C9_Witness ==
    /\ SinglePassed
    /\ GcOf(GuideOf(args.sequence[1])) \notin 8..12
    /\ Min2(Abs(GcOf(GuideOf(args.sequence[1])) - 8),
            Abs(GcOf(GuideOf(args.sequence[1])) - 12)) < 6
    /\ result[1].int_resonance_score[1] < 1000

====
